---- MODULE Spec2Model ----
(***************************************************************************)
(* catfishq (src/catfishq/cat_fastq.py): concatenation and filtering of    *)
(* FASTQ files.  The model follows one invocation of main(): the           *)
(* configuration check, the allow-list loaders, the time-window            *)
(* resolution (with the get_start_time pre-pass), and the streaming loop   *)
(* of format_fq over parse_fastqs.                                         *)
(*                                                                         *)
(* Text is a sequence of one-character strings, so that the regular        *)
(* expressions of the source are searched character by character.          *)
(* Python's None for an optional value is the empty tuple <<>> and a       *)
(* present value v is <<v>>; an absent or empty comment is the empty text. *)
(* A datetime is its number of seconds after 2020-01-01T00:00:00.          *)
(***************************************************************************)
EXTENDS Integers, Sequences, FiniteSets, TLC

VARIABLES
    pc,             \* position in main / format_fq / get_start_time
    args,           \* the parsed command line (parse_args)
    files,          \* the input files, in the order supplied: Seq(Seq(record))
    channels,       \* main: channels_set
    keep_ids,       \* format_fq: keep_ids (None or a set)
    max_start_time, \* format_fq: max_start_time (None or a datetime)
    min_start_time, \* format_fq: min_start_time (None or a datetime)
    fi,             \* index of the file being streamed
    ri,             \* index of the next record of that file
    opened,         \* I/O performed so far: the files opened, in order
    read_ids,       \* format_fq: read_ids
    n,              \* format_fq: n
    n_bp,           \* format_fq: n_bp
    output,         \* the records written to the output sink, in order
    scan_min,       \* get_start_time: min_start_time (running minimum)
    scan_seen,      \* the timestamps get_start_time has compared so far
    error           \* the exception that ended the run, or "none"

vars == <<pc, args, files, channels, keep_ids, max_start_time, min_start_time,
          fi, ri, opened, read_ids, n, n_bp, output, scan_min, scan_seen, error>>

----------------------------------------------------------------------------
(* Optional values *)

None == <<>>

Some(v) == <<v>>

IsNone(o) == o = <<>>

Val(o) == o[1]

----------------------------------------------------------------------------
(* Text helpers: what re and int() do on the characters *)

DigitChars == <<"0", "1", "2", "3", "4", "5", "6", "7", "8", "9">>

IsDigit(c) == \E i \in 1..Len(DigitChars) : DigitChars[i] = c

DigitVal(c) == (CHOOSE i \in 1..Len(DigitChars) : DigitChars[i] = c) - 1

\* int(s) for a text of decimal digits
RECURSIVE ToInt(_)
ToInt(s) ==
    IF s = <<>> THEN 0
    ELSE ToInt(SubSeq(s, 1, Len(s) - 1)) * 10 + DigitVal(s[Len(s)])

\* \s of the re module, on the characters the inputs use
IsSpace(c) == c \in {" ", "\t", "\n"}

UpperChars == <<"S", "T", "A", "R", "I", "M", "E">>

LowerChars == <<"s", "t", "a", "r", "i", "m", "e">>

\* case folding of re.I, on the letters of the pattern
Lower(c) ==
    IF \E i \in 1..Len(UpperChars) : UpperChars[i] = c
    THEN LowerChars[CHOOSE i \in 1..Len(UpperChars) : UpperChars[i] = c]
    ELSE c

\* the literal lit stands in s at position i
MatchAt(s, i, lit) ==
    /\ i >= 1
    /\ i + Len(lit) - 1 <= Len(s)
    /\ \A k \in 1..Len(lit) : s[i + k - 1] = lit[k]

\* the same, ignoring case (re.I)
MatchAtI(s, i, lit) ==
    /\ i >= 1
    /\ i + Len(lit) - 1 <= Len(s)
    /\ \A k \in 1..Len(lit) : Lower(s[i + k - 1]) = Lower(lit[k])

\* the end of the longest run of digits of s that starts at i (i - 1: none)
RECURSIVE DigitRunEnd(_, _)
DigitRunEnd(s, i) ==
    IF i <= Len(s) /\ IsDigit(s[i]) THEN DigitRunEnd(s, i + 1) ELSE i - 1

\* the end of the longest run of characters other than " " that starts at i
RECURSIVE NonBlankRunEnd(_, _)
NonBlankRunEnd(s, i) ==
    IF i <= Len(s) /\ s[i] # " " THEN NonBlankRunEnd(s, i + 1) ELSE i - 1

SetMin(S) == CHOOSE x \in S : \A y \in S : x <= y

----------------------------------------------------------------------------
(* Channels *)

ChKey == <<"c", "h", "=">>

\* channel_regex_pattern = "(^|\s)ch=(?P<channel>\d+)": the positions of the
\* "c" of a `ch=<digits>` that stands at the start of the text or after
\* a whitespace character
ChannelMatches(comment) ==
    { k \in 1..Len(comment) :
        /\ MatchAt(comment, k, ChKey)
        /\ k + 3 <= Len(comment)
        /\ IsDigit(comment[k + 3])
        /\ (k = 1 \/ IsSpace(comment[k - 1])) }

NoChannel == -1

\* get_channel_from_comment: the channel of the leftmost match, or None
\* (NoChannel, which is a member of no set of channels)
get_channel_from_comment(comment) ==
    IF comment = <<>> THEN NoChannel
    ELSE IF ChannelMatches(comment) = {} THEN NoChannel
    ELSE LET k == SetMin(ChannelMatches(comment))
         IN  ToInt(SubSeq(comment, k + 3, DigitRunEnd(comment, k + 3)))

----------------------------------------------------------------------------
(* Channel range expressions *)

\* str.strip(): the text without its leading and trailing whitespace
RECURSIVE Strip(_)
Strip(s) ==
    IF s = <<>> THEN s
    ELSE IF IsSpace(s[1]) THEN Strip(SubSeq(s, 2, Len(s)))
    ELSE IF IsSpace(s[Len(s)]) THEN Strip(SubSeq(s, 1, Len(s) - 1))
    ELSE s

\* _parse_channels_input: channel_range_regex_pattern = "^(\d+)(-(\d+))?$"
\* on the stripped entry; [err, set] with set = range(le, he)
parse_channels_input(channels_input) ==
    LET t  == Strip(channels_input)
        e1 == DigitRunEnd(t, 1)
        e2 == DigitRunEnd(t, e1 + 2)
        single == e1 >= 1 /\ e1 = Len(t)
        range  == e1 >= 1 /\ e1 + 2 <= Len(t) /\ t[e1 + 1] = "-" /\ e2 = Len(t)
        le == ToInt(SubSeq(t, 1, e1))
        he == IF range THEN ToInt(SubSeq(t, e1 + 2, e2)) + 1 ELSE le + 1
    IN  IF ~(single \/ range) THEN [err |-> "ValueError", set |-> {}]
        ELSE IF he <= le THEN [err |-> "ValueError", set |-> {}]
        ELSE [err |-> "none", set |-> le..(he - 1)]

\* get_channels_set: the union of the entries' ranges
get_channels_set(channels_input_list) ==
    LET parsed == [i \in 1..Len(channels_input_list) |->
                      parse_channels_input(channels_input_list[i])]
    IN  IF \E i \in 1..Len(parsed) : parsed[i].err # "none"
        THEN [err |-> "ValueError", set |-> {}]
        ELSE [err |-> "none",
              set |-> UNION { parsed[i].set : i \in 1..Len(parsed) }]

----------------------------------------------------------------------------
(* Timestamps.  The dates of the inputs lie in January 2020 and their     *)
(* fields have two digits; a datetime is held to the second, as seconds   *)
(* after 2020-01-01T00:00:00.                                             *)

YearMonth == <<"2", "0", "2", "0", "-", "0", "1", "-">>

TwoDigits(s, i) ==
    i + 1 <= Len(s) /\ IsDigit(s[i]) /\ IsDigit(s[i + 1])

\* the first 19 characters are `2020-01-DDTHH:MM:SS` with fields in range
DateTimeShape(s) ==
    /\ Len(s) >= 19
    /\ MatchAt(s, 1, YearMonth)
    /\ TwoDigits(s, 9) /\ s[11] = "T"
    /\ TwoDigits(s, 12) /\ s[14] = ":"
    /\ TwoDigits(s, 15) /\ s[17] = ":"
    /\ TwoDigits(s, 18)
    /\ ToInt(SubSeq(s, 9, 10)) \in 1..31
    /\ ToInt(SubSeq(s, 12, 13)) \in 0..23
    /\ ToInt(SubSeq(s, 15, 16)) \in 0..59
    /\ ToInt(SubSeq(s, 18, 19)) \in 0..59

DateTimeValue(s) ==
    (((ToInt(SubSeq(s, 9, 10)) - 1) * 24 + ToInt(SubSeq(s, 12, 13))) * 60
        + ToInt(SubSeq(s, 15, 16))) * 60 + ToInt(SubSeq(s, 18, 19))

\* '%Y-%m-%dT%H:%M:%SZ'
FormatA(s) == Len(s) = 20 /\ DateTimeShape(s) /\ s[20] = "Z"

\* '%Y-%m-%dT%H:%M:%S.%f%z': a fraction of one to six digits and an offset
\* +HH:MM or -HH:MM, which replace(tzinfo=None) drops
FormatB(s) ==
    /\ DateTimeShape(s)
    /\ Len(s) >= 21 /\ s[20] = "."
    /\ LET e == DigitRunEnd(s, 21)
       IN  /\ e >= 21 /\ e <= 26
           /\ Len(s) = e + 6
           /\ s[e + 1] \in {"+", "-"}
           /\ TwoDigits(s, e + 2) /\ s[e + 4] = ":" /\ TwoDigits(s, e + 5)

\* parse_timestamp: None stands for the ValueError of the second strptime
parse_timestamp(time_str) ==
    IF FormatA(time_str) THEN Some(DateTimeValue(time_str))
    ELSE IF FormatB(time_str) THEN Some(DateTimeValue(time_str))
    ELSE None

StartKey == <<"s", "t", "a", "r", "t", "_", "t", "i", "m", "e", "=">>

\* re.search(r'start_time=([^ ]+)', comment, re.M|re.I): the positions where
\* the key stands, followed by at least one character other than " "
StartTimeMatches(comment) ==
    { k \in 1..Len(comment) :
        /\ MatchAtI(comment, k, StartKey)
        /\ k + Len(StartKey) <= Len(comment)
        /\ comment[k + Len(StartKey)] # " " }

\* matchObj.group(1) parsed: [err, val].  With no match, matchObj is None
\* and .group raises AttributeError (TypeError for a comment that is None:
\* an error either way); an unparseable value raises ValueError.
StartTimeOf(comment) ==
    IF StartTimeMatches(comment) = {}
    THEN [err |-> "AttributeError", val |-> 0]
    ELSE LET k == SetMin(StartTimeMatches(comment)) + Len(StartKey)
             t == parse_timestamp(SubSeq(comment, k, NonBlankRunEnd(comment, k)))
         IN  IF IsNone(t) THEN [err |-> "ValueError", val |-> 0]
             ELSE [err |-> "none", val |-> Val(t)]

\* check_seq_time returning False where the field is missing
check_seq_time_skips(comment, max_t, min_t) ==
    IF IsNone(max_t) /\ IsNone(min_t) THEN [err |-> "none", ok |-> TRUE]
    ELSE LET st == StartTimeOf(comment)
             bool_max == IsNone(max_t) \/ st.val <= Val(max_t)
             bool_min == IsNone(min_t) \/ st.val >= Val(min_t)
         IN  IF st.err # "none" THEN [err |-> "none", ok |-> FALSE]
             ELSE [err |-> "none", ok |-> bool_min /\ bool_max]

\* check_seq_time: [err, ok]
check_seq_time(comment, max_t, min_t) ==
    IF IsNone(max_t) /\ IsNone(min_t) THEN [err |-> "none", ok |-> TRUE]
    ELSE LET st == StartTimeOf(comment)
             bool_max == IsNone(max_t) \/ st.val <= Val(max_t)
             bool_min == IsNone(min_t) \/ st.val >= Val(min_t)
         IN  IF st.err # "none" THEN [err |-> st.err, ok |-> FALSE]
             ELSE [err |-> "none", ok |-> bool_min /\ bool_max]

\* compare_start_time without its last branch
compare_start_time_keeps_first(comment, running) ==
    LET st == StartTimeOf(comment)
    IN  IF st.err # "none" THEN [err |-> st.err, val |-> running]
        ELSE IF IsNone(running) THEN [err |-> "none", val |-> Some(st.val)]
        ELSE [err |-> "none", val |-> running]

\* compare_start_time: [err, val]; the running minimum is None while it
\* still holds the initial 0 of get_start_time (no datetime equals 0)
compare_start_time(comment, running) ==
    LET st == StartTimeOf(comment)
    IN  IF st.err # "none" THEN [err |-> st.err, val |-> running]
        ELSE IF IsNone(running) THEN [err |-> "none", val |-> Some(st.val)]
        ELSE IF Val(running) <= st.val THEN [err |-> "none", val |-> running]
        ELSE [err |-> "none", val |-> Some(st.val)]

----------------------------------------------------------------------------
(* Records.  A record is [name, units, quality, comment]: its sequence is  *)
(* held as a number of units of Unit bases, and its quality array gives    *)
(* one phred score per unit (<<>> for a record without qualities).         *)

Mega == 1000000

Unit == Mega \div 2

\* len(entry.sequence)
SeqLen(entry) == entry.units * Unit

RECURSIVE Pow10(_)
Pow10(k) == IF k = 0 THEN 1 ELSE 10 * Pow10(k - 1)

\* LOOKUP[q] = pow(10, -0.1 * q), times 10^4, for the scores 0, 10, .., 40
LOOKUP(q) == Pow10(4 - q \div 10)

RECURSIVE SumProb(_)
SumProb(scores) ==
    IF scores = <<>> THEN 0
    ELSE LOOKUP(scores[1]) + SumProb(SubSeq(scores, 2, Len(scores)))

\* _compute_mean_qscore(scores) < min_qscore, for scores and a minimum that
\* are multiples of 10: -10 * log10(sum_prob / len) < min_qscore exactly
\* when sum_prob > len * 10^(-min_qscore / 10); an empty array scores 0.0
mean_qscore_below(scores, min_qscore) ==
    IF scores = <<>> THEN 0 < min_qscore
    ELSE SumProb(scores) > Len(scores) * LOOKUP(min_qscore)

WrapTag == <<"C", "O", ":", "Z", ":">>

\* parse_fastqs, lines 301-304: the comment as the display mode leaves it
rewrite_comment(comment, comments) ==
    IF comment # <<>> /\ comments = "wrap" THEN WrapTag \o comment
    ELSE IF comments = "skip" THEN <<>>
    ELSE comment

\* parse_fastqs, line 305: the channel test on the rewritten comment
channel_rejects(chans, comment) ==
    ~IsNone(chans) /\ get_channel_from_comment(comment) \notin Val(chans)

\* parse_fastqs with the channel test on the comment as read
parse_fastqs_channel_first(entry, min_len, min_qscore, max_t, min_t, comments, chans) ==
    LET t   == check_seq_time(entry.comment, max_t, min_t)
        new == [entry EXCEPT !.comment = rewrite_comment(entry.comment, comments)]
    IN  IF min_len # 0 /\ SeqLen(entry) < min_len
        THEN [res |-> "skip", err |-> "none", entry |-> entry]
        ELSE IF min_qscore # 0 /\ mean_qscore_below(entry.quality, min_qscore)
        THEN [res |-> "skip", err |-> "none", entry |-> entry]
        ELSE IF t.err # "none"
        THEN [res |-> "raise", err |-> t.err, entry |-> entry]
        ELSE IF ~t.ok
        THEN [res |-> "skip", err |-> "none", entry |-> entry]
        ELSE IF channel_rejects(chans, entry.comment)
        THEN [res |-> "skip", err |-> "none", entry |-> new]
        ELSE [res |-> "yield", err |-> "none", entry |-> new]

\* parse_fastqs, the body of its loop for one entry: [res, err, entry] with
\* res "skip" (continue), "yield" or "raise"
parse_fastqs(entry, min_len, min_qscore, max_t, min_t, comments, chans) ==
    LET t   == check_seq_time(entry.comment, max_t, min_t)
        new == [entry EXCEPT !.comment = rewrite_comment(entry.comment, comments)]
    IN  IF min_len # 0 /\ SeqLen(entry) < min_len
        THEN [res |-> "skip", err |-> "none", entry |-> entry]
        ELSE IF min_qscore # 0 /\ mean_qscore_below(entry.quality, min_qscore)
        THEN [res |-> "skip", err |-> "none", entry |-> entry]
        ELSE IF t.err # "none"
        THEN [res |-> "raise", err |-> t.err, entry |-> entry]
        ELSE IF ~t.ok
        THEN [res |-> "skip", err |-> "none", entry |-> entry]
        ELSE IF channel_rejects(chans, new.comment)
        THEN [res |-> "skip", err |-> "none", entry |-> new]
        ELSE [res |-> "yield", err |-> "none", entry |-> new]

----------------------------------------------------------------------------
(* format_fq: helpers of the driver *)

\* a value that Python's `if x:` takes for true, for an optional integer
Truthy(o) == ~IsNone(o) /\ Val(o) # 0

\* lines 359-365: the identifiers of the identifier file, one per line
load_filter_ids(filter_read_ids_file) ==
    IF IsNone(filter_read_ids_file) THEN None
    ELSE Some({ Val(filter_read_ids_file)[i] :
                  i \in 1..Len(Val(filter_read_ids_file)) })

\* lines 367-377: the identifiers (cols[4]) of the rows of the decision log
\* whose label (cols[6]) is accepted, added to keep_ids
load_filter_as(keep, filter_read_as_file, filter_read_as_decision) ==
    IF ~IsNone(filter_read_as_file) /\ filter_read_as_decision # <<>>
    THEN LET rows == Val(filter_read_as_file)
             base == IF IsNone(keep) THEN {} ELSE Val(keep)
             labels == { filter_read_as_decision[i] :
                           i \in 1..Len(filter_read_as_decision) }
         IN  Some(base \cup { rows[i][5] :
                    i \in { j \in 1..Len(rows) : rows[j][7] \in labels } })
    ELSE keep

\* lines 383-386 and 392-395: a bound of the window
window_bound(start, offset) ==
    IF Truthy(offset) THEN Some(start + 60 * Val(offset)) ELSE None

\* line 409 without the membership test
dedup_never_rejects(dedup, name, seen) == FALSE

\* line 409
dedup_rejects(dedup, name, seen) == dedup /\ name \in seen

\* line 412 with `keep_ids and` for `keep_ids is not None and`
keep_rejects_if_nonempty(keep, name) ==
    ~IsNone(keep) /\ Val(keep) # {} /\ name \notin Val(keep)

\* line 412
keep_rejects(keep, name) == ~IsNone(keep) /\ name \notin Val(keep)

\* line 420 with n > max_n
cap_reached_late(max_n, cnt, max_bp, cnt_bp) ==
    (max_n # 0 /\ cnt > max_n) \/ (max_bp # 0 /\ cnt_bp > max_bp)

\* line 420 with n for n_bp
cap_reached_by_count(max_n, cnt, max_bp, cnt_bp) ==
    (max_n # 0 /\ cnt >= max_n) \/ (max_bp # 0 /\ cnt > max_bp)

\* line 420
cap_reached(max_n, cnt, max_bp, cnt_bp) ==
    (max_n # 0 /\ cnt >= max_n) \/ (max_bp # 0 /\ cnt_bp > max_bp)

\* line 445 without its second disjunct
filter_as_without_state(a) ==
    ~IsNone(a.FILTER_AS) /\ a.FILTER_AS_STATE = <<>>

\* main, line 445
filter_as_inconsistent(a) ==
    \/ (~IsNone(a.FILTER_AS) /\ a.FILTER_AS_STATE = <<>>)
    \/ (IsNone(a.FILTER_AS) /\ a.FILTER_AS_STATE # <<>>)

----------------------------------------------------------------------------
(* Actions *)

Raise(e) ==
    /\ pc' = "error"
    /\ error' = e

\* main: the mode switch, the configuration check and the channel set
Main ==
    /\ pc = "main"
    /\ IF args.PRINT_START_TIME
       THEN /\ pc' = "scan"
            /\ UNCHANGED <<channels, error>>
       ELSE IF filter_as_inconsistent(args)
       THEN /\ pc' = "rejected"
            /\ UNCHANGED <<channels, error>>
       ELSE IF args.channels_input # <<>>
       THEN LET cs == get_channels_set(args.channels_input)
            IN  IF cs.err # "none"
                THEN Raise(cs.err) /\ UNCHANGED channels
                ELSE /\ channels' = Some(cs.set)
                     /\ pc' = "load"
                     /\ UNCHANGED error
       ELSE /\ pc' = "load"
            /\ UNCHANGED <<channels, error>>
    /\ UNCHANGED <<args, files, keep_ids, max_start_time, min_start_time, fi, ri,
                   opened, read_ids, n, n_bp, output, scan_min, scan_seen>>

\* format_fq, lines 358-377: the allow-list loaders
LoadKeepIds ==
    /\ pc = "load"
    /\ LET rows == IF IsNone(args.FILTER_AS) THEN <<>> ELSE Val(args.FILTER_AS)
           reads_as == ~IsNone(args.FILTER_AS) /\ args.FILTER_AS_STATE # <<>>
           io == (IF IsNone(args.FILTER_ID) THEN <<>> ELSE << <<"ids", 0>> >>)
                 \o (IF reads_as THEN << <<"as", 0>> >> ELSE <<>>)
       IN  /\ opened' = opened \o io
           /\ IF reads_as /\ \E i \in 1..Len(rows) : Len(rows[i]) < 7
              THEN Raise("IndexError") /\ UNCHANGED keep_ids
              ELSE /\ keep_ids' = load_filter_as(load_filter_ids(args.FILTER_ID),
                                      args.FILTER_AS, args.FILTER_AS_STATE)
                   /\ pc' = "window"
                   /\ UNCHANGED error
    /\ UNCHANGED <<args, files, channels, max_start_time, min_start_time, fi, ri,
                   read_ids, n, n_bp, output, scan_min, scan_seen>>

MinText == <<"m", "i", "n">>

\* format_fq, lines 379-395: the window from an explicit base time, or the
\* call of get_start_time for "min"
ResolveWindow ==
    /\ pc = "window"
    /\ IF args.START_TIME = <<>>
       THEN /\ pc' = "open"
            /\ UNCHANGED <<max_start_time, min_start_time, error>>
       ELSE IF args.START_TIME # MinText
       THEN LET start == parse_timestamp(args.START_TIME)
            IN  IF IsNone(start)
                THEN Raise("ValueError")
                     /\ UNCHANGED <<max_start_time, min_start_time>>
                ELSE /\ max_start_time' = window_bound(Val(start), args.MAX_SEQ_TIME)
                     /\ min_start_time' = window_bound(Val(start), args.MIN_SEQ_TIME)
                     /\ pc' = "open"
                     /\ UNCHANGED error
       ELSE /\ pc' = "scan"
            /\ UNCHANGED <<max_start_time, min_start_time, error>>
    /\ UNCHANGED <<args, files, channels, keep_ids, fi, ri, opened, read_ids,
                   n, n_bp, output, scan_min, scan_seen>>

\* get_start_time, line 338: the next file is opened
ScanOpen ==
    /\ pc = "scan"
    /\ fi <= Len(files)
    /\ ri = 0
    /\ ri' = 1
    /\ opened' = Append(opened, <<"scan", fi>>)
    /\ UNCHANGED <<pc, args, files, channels, keep_ids, max_start_time,
                   min_start_time, fi, read_ids, n, n_bp, output, scan_min,
                   scan_seen, error>>

\* get_start_time, lines 339-340: one entry is compared
ScanRecord ==
    /\ pc = "scan"
    /\ fi <= Len(files)
    /\ ri >= 1
    /\ ri <= Len(files[fi])
    /\ LET c == compare_start_time(files[fi][ri].comment, scan_min)
       IN  IF c.err # "none"
           THEN Raise(c.err) /\ UNCHANGED <<ri, scan_min, scan_seen>>
           ELSE /\ scan_min' = c.val
                /\ scan_seen' = Append(scan_seen, StartTimeOf(files[fi][ri].comment).val)
                /\ ri' = ri + 1
                /\ UNCHANGED <<pc, error>>
    /\ UNCHANGED <<args, files, channels, keep_ids, max_start_time, min_start_time,
                   fi, opened, read_ids, n, n_bp, output>>

\* get_start_time: the file is exhausted and closed
ScanClose ==
    /\ pc = "scan"
    /\ fi <= Len(files)
    /\ ri > Len(files[fi])
    /\ fi' = fi + 1
    /\ ri' = 0
    /\ UNCHANGED <<pc, args, files, channels, keep_ids, max_start_time,
                   min_start_time, opened, read_ids, n, n_bp, output, scan_min,
                   scan_seen, error>>

\* get_start_time returns: main prints the minimum (lines 441-442), or
\* format_fq builds the window from it (lines 390-395).  The initial 0 has
\* no strftime and cannot be added to a timedelta.
ScanReturn ==
    /\ pc = "scan"
    /\ fi > Len(files)
    /\ IF args.PRINT_START_TIME
       THEN /\ IF IsNone(scan_min)
               THEN Raise("AttributeError")
               ELSE pc' = "done" /\ UNCHANGED error
            /\ UNCHANGED <<max_start_time, min_start_time, fi, ri>>
       ELSE IF IsNone(scan_min)
                /\ (Truthy(args.MAX_SEQ_TIME) \/ Truthy(args.MIN_SEQ_TIME))
       THEN Raise("TypeError")
            /\ UNCHANGED <<max_start_time, min_start_time, fi, ri>>
       ELSE /\ max_start_time' = IF IsNone(scan_min) THEN None
                                 ELSE window_bound(Val(scan_min), args.MAX_SEQ_TIME)
            /\ min_start_time' = IF IsNone(scan_min) THEN None
                                 ELSE window_bound(Val(scan_min), args.MIN_SEQ_TIME)
            /\ pc' = "open"
            /\ fi' = 1
            /\ ri' = 0
            /\ UNCHANGED error
    /\ UNCHANGED <<args, files, channels, keep_ids, opened, read_ids, n, n_bp,
                   output, scan_min, scan_seen>>

\* format_fq, line 400: the output sink is opened for writing (truncated)
OpenOutput ==
    /\ pc = "open"
    /\ pc' = "run"
    /\ opened' = Append(opened, <<"out", 0>>)
    /\ output' = <<>>
    /\ UNCHANGED <<args, files, channels, keep_ids, max_start_time, min_start_time,
                   fi, ri, read_ids, n, n_bp, scan_min, scan_seen, error>>

\* parse_fastqs, line 290: the next input file is opened
OpenFile ==
    /\ pc = "run"
    /\ fi <= Len(files)
    /\ ri = 0
    /\ ri' = 1
    /\ opened' = Append(opened, <<"fastq", fi>>)
    /\ UNCHANGED <<pc, args, files, channels, keep_ids, max_start_time,
                   min_start_time, fi, read_ids, n, n_bp, output, scan_min,
                   scan_seen, error>>

\* one entry through parse_fastqs and the body of format_fq's loop
\* (lines 405-421)
ProcessRecord ==
    /\ pc = "run"
    /\ fi <= Len(files)
    /\ ri >= 1
    /\ ri <= Len(files[fi])
    /\ LET r == parse_fastqs(files[fi][ri], args.MIN_LEN, args.MIN_QSCORE,
                             max_start_time, min_start_time, args.comments,
                             channels)
           entry == r.entry
       IN  IF r.res = "raise"
           THEN Raise(r.err) /\ UNCHANGED <<ri, read_ids, n, n_bp, output>>
           ELSE IF \/ r.res = "skip"
                   \/ dedup_rejects(args.DEDUP, entry.name, read_ids)
                   \/ keep_rejects(keep_ids, entry.name)
           THEN /\ ri' = ri + 1
                /\ UNCHANGED <<pc, error, read_ids, n, n_bp, output>>
           ELSE /\ output' = Append(output, entry)
                /\ read_ids' = IF args.DEDUP THEN read_ids \cup {entry.name}
                               ELSE read_ids
                /\ n' = n + 1
                /\ n_bp' = n_bp + SeqLen(entry)
                /\ ri' = ri + 1
                /\ pc' = IF cap_reached(args.MAX_N, n + 1, args.MAX_BP * Mega,
                                        n_bp + SeqLen(entry))
                         THEN "done" ELSE pc
                /\ UNCHANGED error
    /\ UNCHANGED <<args, files, channels, keep_ids, max_start_time, min_start_time,
                   fi, opened, scan_min, scan_seen>>

\* parse_fastqs: the file is exhausted and closed
CloseFile ==
    /\ pc = "run"
    /\ fi <= Len(files)
    /\ ri > Len(files[fi])
    /\ fi' = fi + 1
    /\ ri' = 0
    /\ UNCHANGED <<pc, args, files, channels, keep_ids, max_start_time,
                   min_start_time, opened, read_ids, n, n_bp, output, scan_min,
                   scan_seen, error>>

\* format_fq returns after the last file
Finish ==
    /\ pc = "run"
    /\ fi > Len(files)
    /\ pc' = "done"
    /\ UNCHANGED <<args, files, channels, keep_ids, max_start_time, min_start_time,
                   fi, ri, opened, read_ids, n, n_bp, output, scan_min, scan_seen,
                   error>>

NextRun ==
    \/ Main
    \/ LoadKeepIds
    \/ ResolveWindow
    \/ OpenOutput
    \/ OpenFile
    \/ ProcessRecord
    \/ CloseFile
    \/ Finish

NextScan ==
    \/ ScanOpen
    \/ ScanRecord
    \/ ScanClose
    \/ ScanReturn

----------------------------------------------------------------------------
(* Inputs *)

\* parse_args: the defaults of the options
Defaults ==
    [PRINT_START_TIME |-> FALSE, MIN_LEN |-> 0, MIN_QSCORE |-> 0,
     MAX_N |-> 0, MAX_BP |-> 0, DEDUP |-> FALSE,
     MAX_SEQ_TIME |-> None, MIN_SEQ_TIME |-> None, START_TIME |-> <<>>,
     FILTER_ID |-> None, FILTER_AS |-> None, FILTER_AS_STATE |-> <<>>,
     comments |-> "wrap", channels_input |-> <<>>]

\* the most records a file of the inputs holds
MaxRecs == 2

SeqsUpTo(S, k) == UNION { [1..m -> S] : m \in 0..k }

\* the state as main is entered, for a command line a and input files f
Start(a, f) ==
    /\ pc = "main"
    /\ args = a
    /\ files = f
    /\ channels = None
    /\ keep_ids = None
    /\ max_start_time = None
    /\ min_start_time = None
    /\ fi = 1
    /\ ri = 0
    /\ opened = <<>>
    /\ read_ids = {}
    /\ n = 0
    /\ n_bp = 0
    /\ output = <<>>
    /\ scan_min = None
    /\ scan_seen = <<>>
    /\ error = "none"

Rec(nm, u) == [name |-> nm, units |-> u, quality |-> <<>>, comment |-> <<>>]

(* Caps and deduplication: two files of records named A, B (three units), C *)
CapRecords == {Rec("A", 1), Rec("B", 3), Rec("C", 1)}

CapArgs ==
    { [Defaults EXCEPT !.MAX_N = mn, !.MAX_BP = mb, !.DEDUP = d, !.MIN_LEN = ml] :
        mn \in 0..2, mb \in 0..2, d \in BOOLEAN, ml \in {0, Mega} }

InitCap ==
    \E a \in CapArgs, f1 \in SeqsUpTo(CapRecords, MaxRecs),
       f2 \in SeqsUpTo(CapRecords, MaxRecs) : Start(a, <<f1, f2>>)

SpecCap == InitCap /\ [][NextRun]_vars

(* Allow-lists: records A and B, an identifier file and a decision log *)
AllowRecords == {Rec("A", 1), Rec("B", 1)}

\* a row of the decision log, split at the commas: cols[4] is the read
\* identifier and cols[6] the decision
Row(id, decision) == <<"t", "1", "3", "9", id, "500", decision>>

AsRows == {Row("B", "unblock"), Row("A", "stop_receiving")}

AllowArgs ==
    { [Defaults EXCEPT !.FILTER_ID = ids, !.FILTER_AS = log[1],
                       !.FILTER_AS_STATE = log[2]] :
        ids \in {None} \cup { Some(l) : l \in SeqsUpTo({"A", "C"}, 1) },
        log \in {<<None, <<>> >>} \cup
                { <<Some(rows), st>> :
                    rows \in SeqsUpTo(AsRows, MaxRecs),
                    st \in {<<"unblock">>, <<"no_decision">>,
                            <<"unblock", "stop_receiving">>} } }

InitAllow ==
    \E a \in AllowArgs, f1 \in SeqsUpTo(AllowRecords, MaxRecs),
       f2 \in SeqsUpTo(AllowRecords, 1) : Start(a, <<f1, f2>>)

SpecAllow == InitAllow /\ [][NextRun]_vars

(* Channels: records named after their comment *)
Ts0 == <<"2", "0", "2", "0", "-", "0", "1", "-", "0", "1", "T", "0", "0", ":", "0", "0", ":", "0", "0", "Z">>

Ts1 == <<"2", "0", "2", "0", "-", "0", "1", "-", "0", "1", "T", "0", "0", ":", "0", "1", ":", "0", "0", "Z">>

Ts2 == <<"2", "0", "2", "0", "-", "0", "1", "-", "0", "1", "T", "0", "0", ":", "0", "2", ":", "0", "0", "Z">>

TsB == <<"2", "0", "2", "0", "-", "0", "1", "-", "0", "1", "T", "0", "0", ":", "0", "0", ":", "3", "0", ".", "0", "0", "0", "0", "0", "0", "+", "0", "2", ":", "0", "0">>

ChRec(nm, c) == [name |-> nm, units |-> 1, quality |-> <<>>, comment |-> c]

ChannelRecords ==
    { ChRec("first", <<"c", "h", "=", "3", " ", "s", "t", "a", "r", "t", "_", "t", "i", "m", "e", "=">> \o Ts0),
      ChRec("later", <<"r", "=", "1", " ", "c", "h", "=", "3">>),
      ChRec("other", <<"r", "=", "1", " ", "c", "h", "=", "1", "2">>),
      ChRec("glued", <<"r", "=", "1", ",", "c", "h", "=", "3">>),
      ChRec("nochan", <<"r", "=", "1">>),
      ChRec("bare", <<>>) }

ChannelArgs ==
    { [Defaults EXCEPT !.comments = m, !.channels_input = ci] :
        m \in {"wrap", "forward", "skip"},
        ci \in { <<>>, << <<"3">> >>, << <<"3", "-", "5">> >>, << <<" ", "1", "2", " ">>, <<"4">> >> } }

InitChannel ==
    \E a \in ChannelArgs, f1 \in SeqsUpTo(ChannelRecords, MaxRecs),
       f2 \in SeqsUpTo(ChannelRecords, 1) : Start(a, <<f1, f2>>)

SpecChannel == InitChannel /\ [][NextRun]_vars

(* Time windows: records with and without a start_time, short or of low   *)
(* quality                                                                 *)
StartField == <<"s", "t", "a", "r", "t", "_", "t", "i", "m", "e", "=">>

WRec(nm, u, q, c) == [name |-> nm, units |-> u, quality |-> q, comment |-> c]

WindowRecords ==
    { WRec("t0", 2, <<30, 30>>, StartField \o Ts0),
      WRec("t2", 2, <<30, 30>>, <<"c", "h", "=", "3", " ", "s", "t", "a", "r", "t", "_", "t", "i", "m", "e", "=">> \o Ts2),
      WRec("untimed", 2, <<30, 30>>, <<"c", "h", "=", "3">>),
      WRec("short", 1, <<30>>, <<"c", "h", "=", "3">>),
      WRec("poor", 2, <<10, 20>>, <<>>) }

WindowArgs ==
    { [Defaults EXCEPT !.START_TIME = st, !.MAX_SEQ_TIME = mx,
                       !.MIN_SEQ_TIME = mn, !.MIN_LEN = lq[1],
                       !.MIN_QSCORE = lq[2]] :
        st \in {<<>>, Ts0, MinText},
        mx \in {None, Some(0), Some(1)},
        mn \in {None, Some(0), Some(1)},
        lq \in {<<0, 0>>, <<Mega, 20>>} }

InitWindow ==
    \E a \in WindowArgs, f1 \in SeqsUpTo(WindowRecords, MaxRecs),
       f2 \in SeqsUpTo(WindowRecords, 1) : Start(a, <<f1, f2>>)

SpecWindow == InitWindow /\ [][NextRun \/ NextScan]_vars

(* Run modes: the start-time report and the decision-log options *)
ScanRecords ==
    { WRec("t0", 1, <<>>, StartField \o Ts0),
      WRec("t1", 1, <<>>, <<"c", "h", "=", "3", " ", "s", "t", "a", "r", "t", "_", "t", "i", "m", "e", "=">> \o Ts1),
      WRec("t2", 1, <<>>, <<"r", "=", "1", " ", "S", "T", "A", "R", "T", "_", "T", "I", "M", "E", "=">> \o Ts2),
      WRec("tb", 1, <<>>, StartField \o TsB),
      WRec("untimed", 1, <<>>, <<"c", "h", "=", "3">>) }

MainArgs ==
    { [Defaults EXCEPT !.PRINT_START_TIME = p, !.FILTER_AS = log,
                       !.FILTER_AS_STATE = st] :
        p \in BOOLEAN,
        log \in {None, Some(<< Row("t0", "unblock") >>)},
        st \in {<<>>, <<"unblock">>} }

InitMain ==
    \E a \in MainArgs, f1 \in SeqsUpTo(ScanRecords, MaxRecs),
       f2 \in SeqsUpTo(ScanRecords, 1) : Start(a, <<f1, f2>>)

SpecMain == InitMain /\ [][NextRun \/ NextScan]_vars

----------------------------------------------------------------------------
(* What the claims speak of *)

\* the records of all input files, in file-then-within-file order
RECURSIVE Flatten(_)
Flatten(fs) == IF fs = <<>> THEN <<>> ELSE fs[1] \o Flatten(SubSeq(fs, 2, Len(fs)))

Flat == Flatten(files)

\* the subsequence of s at the indices I, from index i on
RECURSIVE PickFrom(_, _, _)
PickFrom(s, I, i) ==
    IF i > Len(s) THEN <<>>
    ELSE (IF i \in I THEN <<s[i]>> ELSE <<>>) \o PickFrom(s, I, i + 1)

Pick(s, I) == PickFrom(s, I, 1)

Names(s) == [i \in 1..Len(s) |-> s[i].name]

RECURSIVE SumLen(_)
SumLen(s) == IF s = <<>> THEN 0 ELSE SeqLen(s[1]) + SumLen(SubSeq(s, 2, Len(s)))

Min2(a, b) == IF a <= b THEN a ELSE b

\* the filter chain yields record i of the inputs (under the resolved window)
ChainYields(i) ==
    parse_fastqs(Flat[i], args.MIN_LEN, args.MIN_QSCORE, max_start_time,
                 min_start_time, args.comments, channels).res = "yield"

\* record i passes the filter chain and the allow-list
Eligible(i) == ChainYields(i) /\ (IsNone(keep_ids) \/ Flat[i].name \in Val(keep_ids))

\* the records that pass the filter chain, the allow-list and dedup: with
\* dedup, only the first eligible record of each identifier
QualIdx ==
    { i \in 1..Len(Flat) :
        /\ Eligible(i)
        /\ args.DEDUP =>
             \A j \in 1..(i - 1) : Eligible(j) => Flat[j].name # Flat[i].name }

Qualifying == Pick(Flat, QualIdx)

\* the number of qualifying records written when the base cap alone stops
\* the run: up to and including the first one that takes the cumulative
\* base count above the cap
BaseCapStop ==
    LET over == { k \in 1..Len(Qualifying) :
                    SumLen(SubSeq(Qualifying, 1, k)) > args.MAX_BP * Mega }
    IN  IF args.MAX_BP = 0 \/ over = {} THEN Len(Qualifying) ELSE SetMin(over)

\* C1 as stated: with a record cap N > 0, a finished run has written exactly
\* min(N, Q) records
C1_ExactlyMinNQ ==
    (pc = "done" /\ args.MAX_N > 0) =>
        Len(output) = Min2(args.MAX_N, Len(Qualifying))

\* C1, amended: with a record cap N > 0 the count never passes N, the run is
\* over as soon as the count reaches N, and a finished run has written the
\* first min(N, Q, K) qualifying records, K being where the base cap stops
\* the run (K = Q without a base cap)
C1_RecordCap ==
    args.MAX_N > 0 =>
        /\ n = Len(output)
        /\ n <= args.MAX_N
        /\ n = args.MAX_N => pc = "done"
        /\ pc = "done" =>
             /\ Len(output) = Min2(args.MAX_N, Min2(Len(Qualifying), BaseCapStop))
             /\ Names(output) = Names(SubSeq(Qualifying, 1, Len(output)))

\* C1: a run capped at 2 records stops in the first file with 2 written,
\* while more records qualify
C1_Witness ==
    /\ pc = "done"
    /\ args.MAX_N = 2
    /\ args.MAX_BP = 0
    /\ Len(output) = 2
    /\ fi = 1
    /\ Len(Qualifying) >= 4

\* C9: with a base cap B > 0 the run is over as soon as the cumulative base
\* count of the written records exceeds B, and the records written before
\* the last one total at most B bases
C9_BaseCap ==
    args.MAX_BP > 0 =>
        /\ n_bp = SumLen(output)
        /\ n_bp > args.MAX_BP * Mega => pc = "done"
        /\ output # <<>> =>
             SumLen(SubSeq(output, 1, Len(output) - 1)) <= args.MAX_BP * Mega

\* C9: a run with a base cap of 1 Mbp and no record cap stops in the first
\* file on exceeding it, with records left unread
C9_Witness ==
    /\ pc = "done"
    /\ args.MAX_BP = 1
    /\ args.MAX_N = 0
    /\ n_bp > Mega
    /\ fi = 1
    /\ ri <= Len(files[1])
    /\ Len(files[2]) > 0

\* the first occurrences of each identifier
FirstIdx(s) == { i \in 1..Len(s) : \A j \in 1..(i - 1) : s[j].name # s[i].name }

\* C2: without another filter or cap, a finished run with dedup has written
\* the first occurrence of each identifier, in input order, once each; a run
\* without dedup has written every record, duplicates included
C2_Dedup ==
    (pc = "done" /\ args.MAX_N = 0 /\ args.MAX_BP = 0 /\ args.MIN_LEN = 0) =>
        IF args.DEDUP
        THEN output = Pick(Flat, FirstIdx(Flat))
        ELSE output = Flat

\* C2: files {A,B} and {B,C} with dedup give A, B, C
C2_Witness ==
    /\ pc = "done"
    /\ args.DEDUP
    /\ args.MAX_N = 0 /\ args.MAX_BP = 0 /\ args.MIN_LEN = 0
    /\ Names(files[1]) = <<"A", "B">>
    /\ Names(files[2]) = <<"B", "C">>
    /\ Names(output) = <<"A", "B", "C">>

\* the number of records the current pass has gone through
RECURSIVE TotalLen(_)
TotalLen(fs) == IF fs = <<>> THEN 0 ELSE Len(fs[1]) + TotalLen(SubSeq(fs, 2, Len(fs)))

Passed ==
    IF fi > Len(files) THEN TotalLen(files)
    ELSE TotalLen(SubSeq(files, 1, fi - 1)) + (IF ri >= 1 THEN ri - 1 ELSE 0)

Written(i) == \E k \in 1..Len(output) : output[k].name = Flat[i].name

\* the identifiers of the identifier file and of the accepted rows of the
\* decision log
IdsOfFile ==
    IF IsNone(args.FILTER_ID) THEN {}
    ELSE { Val(args.FILTER_ID)[i] : i \in 1..Len(Val(args.FILTER_ID)) }

IdsOfLog ==
    IF IsNone(args.FILTER_AS) THEN {}
    ELSE LET rows == Val(args.FILTER_AS)
         IN  { rows[i][5] :
                 i \in { j \in 1..Len(rows) :
                           \E k \in 1..Len(args.FILTER_AS_STATE) :
                               args.FILTER_AS_STATE[k] = rows[j][7] } }

\* C6: a finished run has written every record when neither allow-list is
\* configured; otherwise exactly the records whose identifier is in the
\* union of the two loaders' sets, so none at all when that union is empty
C6_AllowTriState ==
    pc = "done" =>
        IF IsNone(args.FILTER_ID) /\ IsNone(args.FILTER_AS)
        THEN output = Flat
        ELSE /\ output = Pick(Flat, { i \in 1..Len(Flat) :
                                        Flat[i].name \in IdsOfFile \cup IdsOfLog })
             /\ IdsOfFile \cup IdsOfLog = {} => output = <<>>

\* C6: a decision log with no accepted row, no identifier file, records in
\* the inputs, and nothing written
C6_Witness ==
    /\ pc = "done"
    /\ IsNone(args.FILTER_ID)
    /\ ~IsNone(args.FILTER_AS)
    /\ Len(Val(args.FILTER_AS)) > 0
    /\ IdsOfLog = {}
    /\ Len(Flat) >= 2
    /\ output = <<>>

\* C3 as stated: in the modes wrap and forward with a ChannelSet S, a record
\* whose original comment has a `ch=<c>` at a token boundary is yielded
\* exactly when c is in S
C3_ChannelFoundAfterRewrite ==
    (pc = "done" /\ args.comments \in {"wrap", "forward"} /\ ~IsNone(channels)) =>
        \A i \in 1..Len(Flat) :
            ChannelMatches(Flat[i].comment) # {} =>
                (Written(i) <=>
                    get_channel_from_comment(Flat[i].comment) \in Val(channels))

BaseTime ==
    IF args.START_TIME = MinText THEN scan_min ELSE parse_timestamp(args.START_TIME)

\* C4 as stated: once the window is built from a base time T, each bound is
\* T plus its offset when the offset is provided (0 included) and unbounded
\* only when it is not
C4_WindowFromOffsets ==
    (pc \in {"open", "run", "done"} /\ args.START_TIME # <<>> /\ ~IsNone(BaseTime)) =>
        /\ max_start_time = IF IsNone(args.MAX_SEQ_TIME) THEN None
                            ELSE Some(Val(BaseTime) + 60 * Val(args.MAX_SEQ_TIME))
        /\ min_start_time = IF IsNone(args.MIN_SEQ_TIME) THEN None
                            ELSE Some(Val(BaseTime) + 60 * Val(args.MIN_SEQ_TIME))

WindowActive == ~IsNone(max_start_time) \/ ~IsNone(min_start_time)

LacksStartTime(entry) == StartTimeMatches(entry.comment) = {}

\* C5 as stated: with a window active, the run never gets past a record
\* that lacks `start_time=`
C5_NeverPastUntimed ==
    (pc \in {"run", "done"} /\ WindowActive) =>
        \A i \in 1..Passed : ~LacksStartTime(Flat[i])

\* C5, amended: with a window active, the run gets past a record that lacks
\* `start_time=` only when the length or the quality check, which come
\* first, has rejected it; no such record is written
C5_UntimedFailsUnlessRejectedEarlier ==
    (pc \in {"run", "done"} /\ WindowActive) =>
        /\ \A i \in 1..Passed :
              LacksStartTime(Flat[i]) =>
                \/ (args.MIN_LEN # 0 /\ SeqLen(Flat[i]) < args.MIN_LEN)
                \/ (args.MIN_QSCORE # 0
                      /\ mean_qscore_below(Flat[i].quality, args.MIN_QSCORE))
        /\ \A k \in 1..Len(output) : ~LacksStartTime(output[k])

\* C5: the run has failed in the streaming loop, under a minimum quality
\* that the record passes, on a record that lacks `start_time=`
C5_Witness ==
    /\ pc = "error"
    /\ error = "AttributeError"
    /\ WindowActive
    /\ args.MIN_QSCORE # 0
    /\ \E k \in 1..Len(opened) : opened[k] = <<"out", 0>>
    /\ fi <= Len(files) /\ ri >= 1 /\ ri <= Len(files[fi])
    /\ LacksStartTime(files[fi][ri])

\* exactly one of the decision log and the accepted labels is configured
OnlyOneOfLogAndLabels == IsNone(args.FILTER_AS) # (args.FILTER_AS_STATE = <<>>)

SeqRange(q) == { q[i] : i \in 1..Len(q) }

\* C8: get_start_time compares every record in turn, skipping none; its
\* running value is the minimum of the timestamps seen so far (the initial
\* value while none is seen); what it returns is the minimum over all
\* records of all files
C8_ScanMinimum ==
    /\ scan_min = IF scan_seen = <<>> THEN None ELSE Some(SetMin(SeqRange(scan_seen)))
    /\ Len(scan_seen) <= Len(Flat)
    /\ \A k \in 1..Len(scan_seen) :
          LET st == StartTimeOf(Flat[k].comment)
          IN  st.err = "none" /\ scan_seen[k] = st.val
    /\ pc = "scan" => Len(scan_seen) = Passed
    /\ (pc = "done" /\ args.PRINT_START_TIME) =>
          /\ Len(scan_seen) = Len(Flat)
          /\ \A i \in 1..Len(Flat) : Val(scan_min) <= StartTimeOf(Flat[i].comment).val

\* C8: a finished report whose minimum stands in the second file, after
\* later timestamps
C8_Witness ==
    /\ pc = "done"
    /\ args.PRINT_START_TIME
    /\ Len(files[1]) = 2
    /\ Len(files[2]) = 1
    /\ \A k \in 1..2 : scan_seen[k] > Val(scan_min)
    /\ scan_seen[3] = Val(scan_min)

====
